---------------------------- MODULE Spec2Model ----------------------------
(***************************************************************************)
(* Stochastic spiking network (src/src/network.py), its connectivity       *)
(* generators (src/src/connectivity.py) and the avalanche analysis         *)
(* (src/src/analysis.py).                                                  *)
(*                                                                         *)
(* Real numbers are exact rationals <<num, den>> in lowest terms with      *)
(* den > 0.  A zero denominator carries the IEEE specials that a float     *)
(* division by zero produces: <<1,0>> = +inf, <<-1,0>> = -inf, <<0,0>> =   *)
(* NaN.  Random draws of np.random.rand are choices from DrawVals.         *)
(***************************************************************************)
EXTENDS Integers, Sequences, FiniteSets, TLC

VARIABLES
    \* one Network instance driven through run_schedule / run_simulation
    net, pc, queue, remaining, outcome, lastCall, steps, calls,
    \* two Network instances fed the same random draws
    eqA, eqB, eqPc, eqArgs, eqLeft,
    \* connectivity generators
    gen,
    \* avalanche analysis
    spike_matrix, stats

engineVars == <<net, pc, queue, remaining, outcome, lastCall, steps, calls>>
eqVars     == <<eqA, eqB, eqPc, eqArgs, eqLeft>>
genVars    == <<gen>>
avaVars    == <<spike_matrix, stats>>
vars       == <<engineVars, eqVars, genVars, avaVars>>

---------------------------------------------------------------------------
\* Bounds of the model

N         == 2    \* neurons of the simulated network
MaxSteps  == 2    \* simulation steps per engine
MaxCalls  == 1    \* accepted run_schedule calls per engine
GenN      == 3    \* largest neuron count given to a connectivity generator
AvaRows   == 2    \* neurons (rows) of an analysed spike matrix
MaxLen    == 4    \* time steps (columns) of an analysed spike matrix

---------------------------------------------------------------------------
\* Exact rational arithmetic

Abs(x) == IF x < 0 THEN -x ELSE x
Sgn(x) == IF x > 0 THEN 1 ELSE IF x < 0 THEN -1 ELSE 0

RECURSIVE GCD(_, _)
GCD(a, b) == IF b = 0 THEN a ELSE GCD(b, a % b)

LCM(a, b) == (a \div GCD(a, b)) * b

Q(n, d) ==
    IF d = 0 THEN <<Sgn(n), 0>>
    ELSE LET g == GCD(Abs(n), Abs(d))
         IN  <<Sgn(d) * (n \div g), Abs(d) \div g>>

Zero == <<0, 1>>
One  == <<1, 1>>

Add(a, b) ==
    LET l == LCM(a[2], b[2])
    IN  Q(a[1] * (l \div a[2]) + b[1] * (l \div b[2]), l)

Neg(a) == <<-a[1], a[2]>>
Sub(a, b) == Add(a, Neg(b))

Mul(a, b) ==
    IF a[2] = 0 \/ b[2] = 0 THEN <<Sgn(a[1]) * Sgn(b[1]), 0>>
    ELSE IF a[1] = 0 \/ b[1] = 0 THEN Zero
    ELSE LET g1 == GCD(Abs(a[1]), b[2])
             g2 == GCD(Abs(b[1]), a[2])
         IN  <<(a[1] \div g1) * (b[1] \div g2), (a[2] \div g2) * (b[2] \div g1)>>

\* float division: x/0 is +-inf and 0/0 is NaN (numpy warns, it does not raise)
Div(a, b) ==
    IF b[1] = 0 THEN <<Sgn(a[1]), 0>>
    ELSE Mul(a, <<Sgn(b[1]) * b[2], Abs(b[1])>>)

Less(a, b) ==
    LET l == LCM(a[2], b[2])
    IN  a[1] * (l \div a[2]) < b[1] * (l \div b[2])
Leq(a, b) == a = b \/ Less(a, b)

\* a boolean array entering float arithmetic is 1.0 or 0.0
B2Q(b) == IF b THEN One ELSE Zero

RECURSIVE SumSeq(_)
SumSeq(q) == IF q = <<>> THEN Zero ELSE Add(q[1], SumSeq(Tail(q)))

\* the values np.random.rand returns in this model
DrawVals == {<<1, 4>>, <<3, 4>>}
Draws(m) == [1..m -> DrawVals]

---------------------------------------------------------------------------
\* Network (src/src/network.py)

tau_r == 400
tau_d == 20
leakage == <<1, 5>>

None == <<>>

zeros(m) == [i \in 1..m |-> Zero]

\* Network.__init__: v0 is kept by reference (object 1 of the heap of potential
\* arrays), W and omega are copied into the baselines W0 and omega0.
NetworkInit(W, v0, omega, synaptic_efficacy, history_variables) ==
    LET n   == Len(W)
        om  == IF omega.kind = "None" THEN [i \in 1..n |-> Q(8, n)]
               ELSE IF omega.kind = "scalar"
                    THEN [i \in 1..n |-> Div(omega.val, <<n, 1>>)]
                    ELSE omega.val
        v00 == IF v0 = None THEN zeros(n) ELSE v0
    IN  [ n |-> n,
          heap |-> <<v00>>,
          v |-> 1,
          s |-> [i \in 1..Len(v00) |-> FALSE],
          W0 |-> W, W |-> W,
          omega0 |-> om, omega |-> om,
          r |-> None,
          s_thalamus |-> None,
          synaptic_efficacy |-> synaptic_efficacy,
          history_variables |-> history_variables,
          history |-> [name \in {"v", "s", "W", "omega", "r"} |-> <<>>] ]

\* Network.spike: the boolean spike vector for potential v and draws u
spike(v, u) == [i \in 1..Len(v) |-> Leq(u[i], v[i])]

\* Network.spike, "v[s] = 0": the same array object, reset where it spiked
reset(v, s) == [i \in 1..Len(v) |-> IF s[i] THEN Zero ELSE v[i]]

\* Network.propagate_spike: W @ s
propagate_spike(W, s) ==
    [i \in 1..Len(W) |-> SumSeq([j \in 1..Len(s) |-> Mul(W[i][j], B2Q(s[j]))])]

\* Network.synapse
synapse(eff, nt) == [i \in 1..Len(nt) |-> Mul(eff, nt[i])]

\* Network.external_input: the thalamic spikes for drive r and draws w
thalamic_spikes(r, w) == [i \in 1..Len(w) |-> Less(w[i], r)]

ExternalInput(s_th, omega) == [i \in 1..Len(omega) |-> Mul(B2Q(s_th[i]), omega[i])]

\* the membrane update with the leak taken from the potential after the inputs
membraneLeakLast(v, dv) ==
    [i \in 1..Len(v) |-> Sub(Add(v[i], dv[i]), Mul(Add(v[i], dv[i]), leakage))]

\* run_simulation line 108: v + dv - v * leakage, v the potential after reset
membrane(v, dv) ==
    [i \in 1..Len(v) |-> Sub(Add(v[i], dv[i]), Mul(v[i], leakage))]

\* An (n,n) array times an (n,1) array: numpy stretches the (n,1) array along
\* the columns, so entry [i,j] is multiplied by element i of the vector.
BroadcastMul(M, s) ==
    [i \in 1..Len(M) |-> [j \in 1..Len(M[i]) |-> Mul(M[i][j], B2Q(s[i]))]]

\* the update with the sign of the depression term flipped
RelaxGrow(x, x0, dep) ==
    Add(Add(x, Mul(Q(1, tau_r), Sub(x0, x))), Mul(Q(1, tau_d), dep))

\* x + (1/tau_r) * (x0 - x) - (1/tau_d) * dep
Relax(x, x0, dep) ==
    Sub(Add(x, Mul(Q(1, tau_r), Sub(x0, x))), Mul(Q(1, tau_d), dep))

\* Network.plasticity, line 87
PlasticityW(W, W0, s) ==
    LET D == BroadcastMul(W, s)
    IN  [i \in 1..Len(W) |-> [j \in 1..Len(W[i]) |-> Relax(W[i][j], W0[i][j], D[i][j])]]

\* Network.plasticity, line 88
PlasticityOmega(omega, omega0, s_th) ==
    [i \in 1..Len(omega) |-> Relax(omega[i], omega0[i], Mul(omega[i], B2Q(s_th[i])))]

\* getattr(self, var): arrays are handed out by reference.  Only the potential
\* array is ever written in place, so only 'v' is modelled as a reference.
GetAttr(nw, var) ==
    CASE var = "v" -> nw.v
      [] var = "s" -> nw.s
      [] var = "W" -> nw.W
      [] var = "omega" -> nw.omega
      [] var = "r" -> nw.r

RECURSIVE AppendAll(_, _, _)
AppendAll(hist, names, nw) ==
    IF names = <<>> THEN hist
    ELSE AppendAll([hist EXCEPT ![Head(names)] = Append(@, GetAttr(nw, Head(names)))],
                   Tail(names), nw)

\* Network.append_history
append_history(nw) ==
    [nw EXCEPT !.history = AppendAll(nw.history, nw.history_variables, nw)]

\* Network.plasticity
plasticity(nw) ==
    [nw EXCEPT !.W = PlasticityW(nw.W, nw.W0, nw.s),
               !.omega = PlasticityOmega(nw.omega, nw.omega0, nw.s_thalamus)]

\* run_simulation that also clears the potential when a phase begins
EnterSimulationReset(nw, r) ==
    [nw EXCEPT !.r = <<r>>, !.heap[nw.v] = [i \in 1..Len(nw.heap[nw.v]) |-> Zero]]

\* run_simulation, line 102
EnterSimulation(nw, r) == [nw EXCEPT !.r = <<r>>]

ShapesAgree(nw) == Len(nw.heap[nw.v]) = nw.n

\* run_simulation, line 104: the spike vector is stored and the potential
\* array is reset in place
SpikeStep(nw, u) ==
    LET s == spike(nw.heap[nw.v], u)
    IN  [nw EXCEPT !.s = s, !.heap[nw.v] = reset(nw.heap[nw.v], s)]

\* run_simulation, lines 105-107: dv = synapse(propagate_spike(s)) + ei
DeltaV(nw, sth) ==
    LET syn == synapse(nw.synaptic_efficacy, propagate_spike(nw.W, nw.s))
        ei  == ExternalInput(sth, nw.omega)
    IN  [i \in 1..nw.n |-> Add(syn[i], ei[i])]

\* run_simulation, lines 106-111, after spike(): the thalamic spikes sth are
\* stored, self.v is bound to a new array, the history is appended to and the
\* plasticity is applied
Integrate(nw, sth) ==
    plasticity(append_history(
        [nw EXCEPT !.s_thalamus = sth,
                   !.heap = Append(nw.heap, membrane(nw.heap[nw.v], DeltaV(nw, sth))),
                   !.v = Len(nw.heap) + 1]))

\* run_simulation, line 106: external_input() draws the thalamic spikes
AfterSpike(nw, w) == Integrate(nw, thalamic_spikes(nw.r[1], w))

\* run_schedule without its assert
SameSizeUnchecked(stim_durations, stim_strenghts) == TRUE

\* run_schedule, line 121
SameSize(stim_durations, stim_strenghts) == Len(stim_durations) = Len(stim_strenghts)

\* zip(stim_durations, stim_strenghts)
Zip(a, b) ==
    [k \in 1..(IF Len(a) < Len(b) THEN Len(a) ELSE Len(b)) |-> <<a[k], b[k]>>]

---------------------------------------------------------------------------
\* Inputs of the engine

Half == <<1, 2>>

UniformW(n, w) == [i \in 1..n |-> [j \in 1..n |-> IF i = j THEN Zero ELSE w]]
\* neuron 1 inhibitory: its column is negative
InhibW(n, w) ==
    [i \in 1..n |-> [j \in 1..n |-> IF i = j THEN Zero ELSE IF j = 1 THEN Neg(w) ELSE w]]

\* v0: omitted, one charged neuron, or an array one element too long
Charged == [i \in 1..N |-> IF i = 1 THEN Half ELSE Zero]
TooLong == [i \in 1..(N + 1) |-> Half]
OmegaNone == [kind |-> "None", val |-> Zero]
OmegaScalar(x) == [kind |-> "scalar", val |-> x]

\* The constructor calls of the model: <<W, v0, omega, synaptic_efficacy,
\* history_variables>>
Constructions ==
    { <<UniformW(N, Half), None, OmegaNone, <<3, 10>>, <<"s">> >>,
      <<InhibW(N, Half), Charged, OmegaScalar(<<3, 1>>), <<3, 10>>, <<"v">> >>,
      <<InhibW(N, Half), None, OmegaNone, <<1, 2>>, <<"v", "s">> >>,
      <<UniformW(N, Half), TooLong, OmegaNone, <<3, 10>>, <<"v">> >> }

RChoices == {Half, One}
DurChoices == 0..2

Schedules ==
    {<<>>} \cup {<<d>> : d \in DurChoices}
           \cup {<<d1, d2>> : d1 \in DurChoices, d2 \in DurChoices}
Strengths ==
    {<<>>} \cup {<<r>> : r \in RChoices}
           \cup {<<r1, r2>> : r1 \in RChoices, r2 \in RChoices}

RECURSIVE SumNat(_)
SumNat(q) == IF q = <<>> THEN 0 ELSE Head(q) + SumNat(Tail(q))

---------------------------------------------------------------------------
\* One engine: construction, then run_schedule calls

EngineIdle ==
    /\ net = None /\ pc = "off" /\ queue = <<>> /\ remaining = 0
    /\ outcome = "none" /\ lastCall = "none" /\ steps = 0 /\ calls = 0

EngineInit ==
    /\ \E c \in Constructions : net = NetworkInit(c[1], c[2], c[3], c[4], c[5])
    /\ pc = "idle" /\ queue = <<>> /\ remaining = 0
    /\ outcome = "none" /\ lastCall = "none" /\ steps = 0 /\ calls = 0

\* run_schedule is called; the assert of line 121 raises before the loop
CallRunSchedule ==
    /\ pc = "idle"
    /\ \E durs \in Schedules, strs \in Strengths :
          /\ steps + SumNat(durs) <= MaxSteps
          /\ lastCall' = IF Len(durs) = Len(strs) THEN "equal lengths"
                                                   ELSE "different lengths"
          /\ IF SameSize(durs, strs)
             THEN /\ calls < MaxCalls
                  /\ pc' = "schedule" /\ queue' = Zip(durs, strs)
                  /\ outcome' = "running" /\ calls' = calls + 1
             ELSE /\ pc' = "idle" /\ queue' = <<>>
                  /\ outcome' = "AssertionError" /\ calls' = calls
    /\ UNCHANGED <<net, remaining, steps>>

\* run_schedule, lines 122-123: the next phase enters run_simulation
BeginPhase ==
    /\ pc = "schedule" /\ queue # <<>>
    /\ net' = EnterSimulation(net, Head(queue)[2])
    /\ remaining' = Head(queue)[1]
    /\ queue' = Tail(queue)
    /\ pc' = "simulation"
    /\ UNCHANGED <<outcome, lastCall, steps, calls>>

\* one iteration of the loop of run_simulation
Step ==
    /\ pc = "simulation" /\ remaining > 0 /\ ShapesAgree(net)
    /\ \E u \in Draws(net.n) :
          \E spiked \in {SpikeStep(net, u)} :
              \E w \in Draws(net.n) : net' = AfterSpike(spiked, w)
    /\ remaining' = remaining - 1
    /\ steps' = steps + 1
    /\ UNCHANGED <<pc, queue, outcome, lastCall, calls>>

\* an iteration on a potential array whose length is not n: spike() runs,
\* then W @ s raises ValueError and the call is abandoned
StepRaises ==
    /\ pc = "simulation" /\ remaining > 0 /\ ~ShapesAgree(net)
    /\ \E u \in Draws(Len(net.heap[net.v])) : net' = SpikeStep(net, u)
    /\ pc' = "idle" /\ queue' = <<>> /\ remaining' = 0
    /\ outcome' = "ValueError"
    /\ UNCHANGED <<lastCall, steps, calls>>

\* the loop of run_simulation ends
EndPhase ==
    /\ pc = "simulation" /\ remaining = 0
    /\ pc' = "schedule"
    /\ UNCHANGED <<net, queue, remaining, outcome, lastCall, steps, calls>>

\* run_schedule returns
Return ==
    /\ pc = "schedule" /\ queue = <<>>
    /\ pc' = "idle" /\ outcome' = "returned"
    /\ UNCHANGED <<net, queue, remaining, lastCall, steps, calls>>

EqIdle ==
    /\ eqA = None /\ eqB = None /\ eqPc = "off" /\ eqArgs = None /\ eqLeft = None
GenIdle == gen = None
AvaIdle == spike_matrix = <<>> /\ stats = None

Init == EngineInit /\ EqIdle /\ GenIdle /\ AvaIdle

Next ==
    \/ CallRunSchedule /\ UNCHANGED <<eqVars, genVars, avaVars>>
    \/ BeginPhase /\ UNCHANGED <<eqVars, genVars, avaVars>>
    \/ Step /\ UNCHANGED <<eqVars, genVars, avaVars>>
    \/ StepRaises /\ UNCHANGED <<eqVars, genVars, avaVars>>
    \/ EndPhase /\ UNCHANGED <<eqVars, genVars, avaVars>>
    \/ Return /\ UNCHANGED <<eqVars, genVars, avaVars>>

Spec == Init /\ [][Next]_vars

---------------------------------------------------------------------------
\* Two engines built from the same arguments and fed the same random draws:
\* A runs run_simulation(r, d1 + d2), B runs run_schedule([d1, d2], [r, r]).
\* Each loop iteration consumes the same number of draws in the same order, so
\* iteration k of A and iteration k of B see the same draws.

EqInit ==
    /\ \E c \in Constructions, d1 \in 0..MaxSteps, d2 \in 0..MaxSteps, r \in RChoices :
          /\ d1 + d2 <= MaxSteps
          /\ Len(c[2]) \in {0, Len(c[1])}
          /\ eqA = NetworkInit(c[1], c[2], c[3], c[4], c[5])
          /\ eqB = NetworkInit(c[1], c[2], c[3], c[4], c[5])
          /\ eqArgs = [d1 |-> d1, d2 |-> d2, r |-> r]
    /\ eqPc = "start"
    /\ eqLeft = [a |-> 0, b |-> 0, phase |-> 0]

\* A enters run_simulation; B enters run_schedule and its first run_simulation
EqCall ==
    /\ eqPc = "start"
    /\ SameSize(<<eqArgs.d1, eqArgs.d2>>, <<eqArgs.r, eqArgs.r>>)
    /\ eqA' = EnterSimulation(eqA, eqArgs.r)
    /\ eqB' = EnterSimulation(eqB, Zip(<<eqArgs.d1, eqArgs.d2>>, <<eqArgs.r, eqArgs.r>>)[1][2])
    /\ eqLeft' = [a |-> eqArgs.d1 + eqArgs.d2, b |-> eqArgs.d1, phase |-> 1]
    /\ eqPc' = "run"
    /\ UNCHANGED eqArgs

\* one loop iteration in each engine, on the same draws
EqStep ==
    /\ eqPc = "run" /\ eqLeft.a > 0 /\ eqLeft.b > 0
    /\ \E u \in Draws(eqA.n) :
          \E spikedA \in {SpikeStep(eqA, u)}, spikedB \in {SpikeStep(eqB, u)} :
              \E w \in Draws(eqA.n) :
                  /\ eqA' = AfterSpike(spikedA, w)
                  /\ eqB' = AfterSpike(spikedB, w)
    /\ eqLeft' = [eqLeft EXCEPT !.a = @ - 1, !.b = @ - 1]
    /\ UNCHANGED <<eqPc, eqArgs>>

\* B leaves its first run_simulation and enters the second
EqPhaseBoundary ==
    /\ eqPc = "run" /\ eqLeft.b = 0 /\ eqLeft.phase = 1
    /\ eqB' = EnterSimulation(eqB, Zip(<<eqArgs.d1, eqArgs.d2>>, <<eqArgs.r, eqArgs.r>>)[2][2])
    /\ eqLeft' = [eqLeft EXCEPT !.b = eqArgs.d2, !.phase = 2]
    /\ UNCHANGED <<eqA, eqPc, eqArgs>>

\* both calls return
EqReturn ==
    /\ eqPc = "run" /\ eqLeft.a = 0 /\ eqLeft.b = 0 /\ eqLeft.phase = 2
    /\ eqPc' = "done"
    /\ UNCHANGED <<eqA, eqB, eqArgs, eqLeft>>

InitEq == EngineIdle /\ EqInit /\ GenIdle /\ AvaIdle

NextEq ==
    \/ EqCall /\ UNCHANGED <<engineVars, genVars, avaVars>>
    \/ EqStep /\ UNCHANGED <<engineVars, genVars, avaVars>>
    \/ EqPhaseBoundary /\ UNCHANGED <<engineVars, genVars, avaVars>>
    \/ EqReturn /\ UNCHANGED <<engineVars, genVars, avaVars>>

SpecEq == InitEq /\ [][NextEq]_vars

\* C9: one phase of d1 + d2 steps and a schedule of two phases of d1 and d2
\* steps at the same drive, on the same draws, end in the same v, s, W, omega,
\* s_thalamus and r and the same history logs.
C9_ScheduleEquivalence ==
    eqPc = "done" =>
        /\ eqA.heap[eqA.v] = eqB.heap[eqB.v]
        /\ eqA.s = eqB.s /\ eqA.W = eqB.W /\ eqA.omega = eqB.omega
        /\ eqA.s_thalamus = eqB.s_thalamus /\ eqA.r = eqB.r
        /\ \A name \in DOMAIN eqA.history :
              /\ Len(eqA.history[name]) = Len(eqB.history[name])
              /\ \A k \in 1..Len(eqA.history[name]) :
                    IF name = "v"
                    THEN eqA.heap[eqA.history[name][k]] = eqB.heap[eqB.history[name][k]]
                    ELSE eqA.history[name][k] = eqB.history[name][k]

\* C9 witness: both phases ran at least one step and the boundary was crossed
\* with a charged neuron
C9_Witness ==
    /\ eqPc = "done" /\ eqArgs.d1 >= 1 /\ eqArgs.d2 >= 1
    /\ \E k \in 1..Len(eqB.heap) : \E i \in 1..eqB.n : eqB.heap[k][i] # Zero
    /\ \E name \in DOMAIN eqB.history : Len(eqB.history[name]) = eqArgs.d1 + eqArgs.d2

---------------------------------------------------------------------------
\* Connectivity generators (src/src/connectivity.py).  Matrices are W[row][col],
\* rows and columns numbered from 1; Python's index i is i + 1 here.

Auto == [auto |-> TRUE, val |-> Zero]
Given(x) == [auto |-> FALSE, val |-> x]

RECURSIVE SumRows(_)
SumRows(M) == IF M = <<>> THEN Zero ELSE Add(SumSeq(Head(M)), SumRows(Tail(M)))

\* W.mean()
Mean(M) == Div(SumRows(M), <<Len(M) * Len(M), 1>>)

\* fully_connected_network, lines 36-52, on the draws D (n x n) and f (n)
fully_connected_network(n, proportion_inhib, avg_strength, D, f) ==
    LET random_inhib == [j \in 1..n |-> Less(f[j], proportion_inhib)]
        W1    == [i \in 1..n |-> [j \in 1..n |->
                     IF random_inhib[j] THEN Mul(<<-1, 1>>, D[i][j]) ELSE D[i][j]]]
        avg   == IF avg_strength.auto THEN Q(1, n) ELSE avg_strength.val
        ratio == Div(avg, Mean(W1))
        W2    == [i \in 1..n |-> [j \in 1..n |-> Mul(ratio, W1[i][j])]]
    IN  [ W |-> [i \in 1..n |-> [j \in 1..n |-> IF i = j THEN Zero ELSE W2[i][j]]],
          random_inhib |-> random_inhib ]

\* square_lattice_network.nearest_neighbors, lines 86-91: floor(k/2) neighbours
\* on the left, ceil(k/2) on the right, i itself removed, then wrapped mod n
nearest_neighbors(i, n, k) ==
    LET left  == k \div 2
        right == (k + 1) \div 2 + 1
    IN  { ((i - 1 + off) % n) + 1 : off \in ((0 - left)..(right - 1)) \ {0} }

\* square_lattice_network, lines 93-103
square_lattice_network(n, k, proportion_inhib, avg_strength, D, f) ==
    LET avg  == IF avg_strength.auto THEN Given(Q(1, k)) ELSE avg_strength
        base == fully_connected_network(n, proportion_inhib, avg, D, f)
        mask == [i \in 1..n |-> [j \in 1..n |->
                    IF i \in nearest_neighbors(j, n, k) THEN One ELSE Zero]]
    IN  [ W |-> [i \in 1..n |-> [j \in 1..n |-> Mul(mask[i][j], base.W[i][j])]],
          random_inhib |-> base.random_inhib ]

\* np.nonzero: the <<row, column>> pairs of the nonzero entries, row-major
RECURSIVE NonzeroFrom(_, _)
NonzeroFrom(M, pos) ==
    LET n == Len(M)
        i == ((pos - 1) \div n) + 1
        j == ((pos - 1) % n) + 1
    IN  IF pos > n * n THEN <<>>
        ELSE IF M[i][j] # Zero THEN <<(<<i, j>>)>> \o NonzeroFrom(M, pos + 1)
        ELSE NonzeroFrom(M, pos + 1)
Nonzero(M) == NonzeroFrom(M, 1)

\* Python round() of a non-negative rational: nearest integer, ties to even
Round(q) ==
    LET fl   == q[1] \div q[2]
        twice == 2 * (q[1] - fl * q[2])
    IN  IF twice < q[2] THEN fl
        ELSE IF twice > q[2] THEN fl + 1
        ELSE IF fl % 2 = 0 THEN fl ELSE fl + 1

\* W[(rows, cols)] = vals: the assignments are made in order, the last one wins
RECURSIVE AssignSeq(_, _, _)
AssignSeq(M, where, vals) ==
    IF where = <<>> THEN M
    ELSE AssignSeq([M EXCEPT ![Head(where)[1]][Head(where)[2]] = Head(vals)],
                   Tail(where), Tail(vals))

\* the ordered samples np.random.choice(m, size, replace=False) can return
DistinctSeqs(m, size) ==
    {q \in [1..size -> 1..m] : \A a \in 1..size : \A b \in 1..size : a # b => q[a] # q[b]}

\* small_world_network, lines 144-151, on the lattice base_network, the chosen
\* edge numbers rewire_index and the new rows new_out
Rewire(base_network, rewire_index, new_out) ==
    LET edges  == Nonzero(base_network)
        m      == Len(rewire_index)
        picked == [a \in 1..m |-> edges[rewire_index[a]]]
        vals   == [a \in 1..m |-> base_network[picked[a][1]][picked[a][2]]]
        W1     == AssignSeq(base_network, picked, [a \in 1..m |-> Zero])
    IN  AssignSeq(W1, [a \in 1..m |-> <<new_out[a], picked[a][2]>>], vals)

\* neuron_scale_free_network, lines 192-198: column i takes the base weights
\* of the rows in connections[i]
ScaleFreeFill(base_weights, connections) ==
    [r \in 1..Len(base_weights) |-> [c \in 1..Len(base_weights) |->
        IF r \in connections[c] THEN base_weights[r][c] ELSE Zero]]

\* the outcomes of lines 194-197: for every neuron i, k_out[i] distinct rows
\* other than i (every such sample has positive probability)
ConnectionChoices(n, k_out) ==
    {c \in [1..n -> SUBSET (1..n)] :
        \A i \in 1..n : i \notin c[i] /\ Cardinality(c[i]) = k_out[i]}

\* Inputs of the generators
PChoices == {Zero, <<3, 10>>, <<1, 2>>}
AvgChoices == {Auto, Given(One)}
KChoices == {1, 2, 4}
RewireChoices == {Zero, <<1, 6>>, <<1, 3>>}
KOutMaxChoices == {2, 3}

\* The outcomes of np.random.rand(n, n) in this model: each entry is 1/4 or
\* 3/4, laid out constant, in stripes or as a checkerboard.
RandMatrices(n) ==
    { [i \in 1..n |-> [j \in 1..n |->
          IF (a * i + b * j + c) % 2 = 0 THEN <<1, 4>> ELSE <<3, 4>>]] :
      a \in {0, 1}, b \in {0, 1}, c \in {0, 1} }

GenStart == [pc |-> "start", kind |-> "none", n |-> 0, avg |-> Auto,
             random_inhib |-> <<>>, W |-> <<>>, rewired |-> 0]

GenInit == gen = GenStart

Returned(kind, n, avg, res, m) ==
    gen' = [pc |-> "done", kind |-> kind, n |-> n, avg |-> avg,
            random_inhib |-> res.random_inhib, W |-> res.W, rewired |-> m]

\* the assert of fully_connected_network, line 34
LessThanHalf(proportion_inhib) == Less(proportion_inhib, Half)

\* a generator is called with proportion_inhib >= .5: every generator reaches
\* the assert of fully_connected_network before it returns anything
GenRejected ==
    /\ gen.pc = "start"
    /\ \E kind \in {"fully_connected", "square_lattice", "small_world", "scale_free"},
          n \in 2..GenN, p \in PChoices :
          /\ ~LessThanHalf(p)
          /\ gen' = [GenStart EXCEPT !.pc = "AssertionError", !.kind = kind, !.n = n]

GenFullyConnected ==
    /\ gen.pc = "start"
    /\ \E n \in 2..GenN, p \in PChoices, avg \in AvgChoices :
          /\ LessThanHalf(p)
          /\ \E D \in RandMatrices(n), f \in Draws(n) :
                Returned("fully_connected", n, avg,
                         fully_connected_network(n, p, avg, D, f), 0)

GenSquareLattice ==
    /\ gen.pc = "start"
    /\ \E n \in 2..GenN, k \in KChoices, p \in PChoices, avg \in AvgChoices :
          /\ LessThanHalf(p)
          /\ \E D \in RandMatrices(n), f \in Draws(n) :
                Returned("square_lattice", n, avg,
                         square_lattice_network(n, k, p, avg, D, f), 0)

GenSmallWorld ==
    /\ gen.pc = "start"
    /\ \E n \in 2..GenN, k \in KChoices, r \in RewireChoices,
          p \in PChoices, avg \in AvgChoices :
          /\ LessThanHalf(p)
          /\ \E D \in RandMatrices(n), f \in Draws(n) :
              \E base \in {square_lattice_network(n, k, p, avg, D, f)} :
              \E E \in {Len(Nonzero(base.W))} :
              \E m \in {Round(Mul(r, <<E, 1>>))} :
              \E rewire_index \in DistinctSeqs(E, m), new_out \in [1..m -> 1..n] :
                  Returned("small_world", n, avg,
                           [W |-> Rewire(base.W, rewire_index, new_out),
                            random_inhib |-> base.random_inhib], m)

\* np.random.choice(possibilities, k_out[i], replace=False) raises ValueError
\* when k_out[i] exceeds the n - 1 possibilities
GenScaleFree ==
    /\ gen.pc = "start"
    /\ \E n \in 2..GenN, k_out_max \in KOutMaxChoices, p \in PChoices, avg \in AvgChoices :
          /\ LessThanHalf(p)
          /\ \E k_out \in [1..n -> 2..k_out_max] :
                IF \E i \in 1..n : k_out[i] > n - 1
                THEN gen' = [GenStart EXCEPT !.pc = "ValueError",
                                             !.kind = "scale_free", !.n = n]
                ELSE \E connections \in ConnectionChoices(n, k_out),
                        D \in RandMatrices(n), f \in Draws(n) :
                     \E a \in {IF avg.auto
                                THEN Given(Div(<<n, 1>>, <<SumNat(k_out), 1>>))
                                ELSE avg} :
                     \E base \in {fully_connected_network(n, p, a, D, f)} :
                         Returned("scale_free", n, avg,
                                  [W |-> ScaleFreeFill(base.W, connections),
                                   random_inhib |-> base.random_inhib], 0)

InitGen == EngineIdle /\ EqIdle /\ GenInit /\ AvaIdle

NextGen ==
    \/ GenRejected /\ UNCHANGED <<engineVars, eqVars, avaVars>>
    \/ GenFullyConnected /\ UNCHANGED <<engineVars, eqVars, avaVars>>
    \/ GenSquareLattice /\ UNCHANGED <<engineVars, eqVars, avaVars>>
    \/ GenSmallWorld /\ UNCHANGED <<engineVars, eqVars, avaVars>>
    \/ GenScaleFree /\ UNCHANGED <<engineVars, eqVars, avaVars>>

SpecGen == InitGen /\ [][NextGen]_vars

\* x <= 0 and x >= 0 as floats compare: every comparison with NaN is false
LeZero(x) == IF x[2] = 0 THEN x[1] < 0 ELSE x[1] <= 0
GeZero(x) == IF x[2] = 0 THEN x[1] > 0 ELSE x[1] >= 0

\* C4 (as claimed): every matrix a topology generator returns has a zero
\* diagonal.
C4_ZeroDiagonal ==
    gen.pc = "done" => \A i \in 1..gen.n : gen.W[i][i] = Zero

\* C5 (as claimed): in every matrix fully_connected_network returns for a
\* positive average-strength target, the columns flagged inhibitory are <= 0
\* and the other columns are >= 0.
C5_SignInvariant ==
    (gen.pc = "done" /\ gen.kind = "fully_connected") =>
        \A i \in 1..gen.n : \A j \in 1..gen.n :
            IF gen.random_inhib[j] THEN LeZero(gen.W[i][j]) ELSE GeZero(gen.W[i][j])

---------------------------------------------------------------------------
\* Avalanche analysis (src/src/analysis.py).  spike_matrix is the sequence of
\* the columns (time steps) of the matrix, each a vector over the neurons.
\* Index sequences hold numpy's 0-based indexes.

RECURSIVE SumInts(_)
SumInts(q) == IF q = <<>> THEN 0 ELSE Head(q) + SumInts(Tail(q))

\* lines 8-9: spike_matrix.sum(axis=0) with a zero put in front
TotalSpikes(M) == <<0>> \o [t \in 1..Len(M) |-> SumInts(M[t])]

\* lines 10-13: the indexes where "total_spikes >= 1" differs from the step
\* before; diff() of the first step is NaN, which fillna(0) makes "no event"
RECURSIVE EventsFrom(_, _)
EventsFrom(total, pos) ==
    IF pos > Len(total) THEN <<>>
    ELSE IF pos > 1 /\ ((total[pos] >= 1) # (total[pos - 1] >= 1))
         THEN <<pos - 1>> \o EventsFrom(total, pos + 1)
         ELSE EventsFrom(total, pos + 1)
EventIndexes(total) == EventsFrom(total, 1)

\* reshape(-1, 2)
Pairs(ev) == [k \in 1..(Len(ev) \div 2) |-> <<ev[2 * k - 1], ev[2 * k]>>]

\* the pairing that drops the first event, not the last, of an odd number
AvalanchePeriodsDropFirst(event_indexes) ==
    IF Len(event_indexes) % 2 = 0 THEN Pairs(event_indexes)
    ELSE Pairs(Tail(event_indexes))

\* lines 15-18
AvalanchePeriods(event_indexes) ==
    IF Len(event_indexes) % 2 = 0 THEN Pairs(event_indexes)
    ELSE Pairs(SubSeq(event_indexes, 1, Len(event_indexes) - 1))

\* total_spikes[a:b].sum() for 0-based a, b
SliceSum(total, a, b) == SumInts(SubSeq(total, a + 1, b))

\* avalanche_basic_stats: <<total_avalanches, avalanche_sizes, avalanche_durations>>
avalanche_basic_stats(M) ==
    LET total   == TotalSpikes(M)
        periods == AvalanchePeriods(EventIndexes(total))
        durations == [k \in 1..Len(periods) |-> periods[k][2] - periods[k][1]]
        sizes   == [k \in 1..Len(periods) |-> SliceSum(total, periods[k][1], periods[k][2])]
    IN  <<Len(sizes), sizes, durations>>

\* a matrix of three neurons whose column sums are the given series
MatrixOf(series) ==
    [t \in 1..Len(series) |-> [i \in 1..3 |-> IF i <= series[t] THEN 1 ELSE 0]]

Example1 == MatrixOf(<<0, 0, 2, 3, 0, 0, 1, 0>>)
Example2 == MatrixOf(<<0, 0, 1, 1>>)

AvaInit ==
    /\ spike_matrix \in {<<>>, Example1, Example2}
    /\ stats = None

\* the recorded matrix grows by one time step
AvaExtend ==
    /\ stats = None
    /\ Len(spike_matrix) < MaxLen
    /\ \A t \in 1..Len(spike_matrix) : Len(spike_matrix[t]) = AvaRows
    /\ \E col \in [1..AvaRows -> {0, 1}] : spike_matrix' = Append(spike_matrix, col)
    /\ UNCHANGED stats

\* avalanche_basic_stats is applied to the matrix
AvaAnalyse ==
    /\ stats = None
    /\ stats' = avalanche_basic_stats(spike_matrix)
    /\ UNCHANGED spike_matrix

InitAva == EngineIdle /\ EqIdle /\ GenIdle /\ AvaInit

NextAva ==
    \/ AvaExtend /\ UNCHANGED <<engineVars, eqVars, genVars>>
    \/ AvaAnalyse /\ UNCHANGED <<engineVars, eqVars, genVars>>

SpecAva == InitAva /\ [][NextAva]_vars

\* The activity series and its complete avalanches, read off the series itself:
\* a run a..b of active steps that starts the series or follows a quiescent
\* step and is followed by a quiescent step.
Activity == [t \in 1..Len(spike_matrix) |-> SumInts(spike_matrix[t])]
IsRun(A, a, b) ==
    /\ a <= b /\ b < Len(A)
    /\ \A t \in a..b : A[t] >= 1
    /\ (a = 1 \/ A[a - 1] = 0)
    /\ A[b + 1] = 0
RunEnd(A, a) == CHOOSE b \in a..Len(A) : IsRun(A, a, b)
RunStarts(A) == {a \in 1..Len(A) : \E b \in a..Len(A) : IsRun(A, a, b)}
RECURSIVE Ascending(_)
Ascending(S) ==
    IF S = {} THEN <<>>
    ELSE LET lo == CHOOSE x \in S : \A y \in S : x <= y
         IN  <<lo>> \o Ascending(S \ {lo})
ExpectedStats(A) ==
    LET starts == Ascending(RunStarts(A))
    IN  << Len(starts),
           [k \in 1..Len(starts) |->
               SumInts(SubSeq(A, starts[k], RunEnd(A, starts[k])))],
           [k \in 1..Len(starts) |-> RunEnd(A, starts[k]) - starts[k] + 1] >>

\* C6: avalanche_basic_stats reports exactly the maximal runs of active steps
\* that are followed by a quiescent step, in time order, with their lengths and
\* summed activity; a run still active at the last step is dropped; no
\* complete run gives <<0, <<>>, <<>>>>; [0,0,2,3,0,0,1,0] gives 2 avalanches
\* of sizes [5,1] and durations [2,1]; [0,0,1,1] gives none.
C6_AvalancheStats ==
    stats # None =>
        /\ stats = ExpectedStats(Activity)
        /\ (RunStarts(Activity) = {} => stats = <<0, <<>>, <<>>>>)
        /\ (spike_matrix = Example1 => stats = <<2, <<5, 1>>, <<2, 1>>>>)
        /\ (spike_matrix = Example2 => stats = <<0, <<>>, <<>>>>)

\* C6 witness: an analysed series with a complete avalanche and a trailing run
\* that is still active at the last step
C6_Witness ==
    /\ stats # None
    /\ stats[1] >= 1
    /\ Activity[Len(Activity)] >= 1

---------------------------------------------------------------------------
\* Properties of one engine (specification Spec)

StepTaken == steps' = steps + 1

\* the flux W @ s and the external input of the step just taken, written
\* element by element from the state before (W, omega) and after (s, s_thalamus)
FluxOf(i)  == SumSeq([j \in 1..net.n |-> IF net'.s[j] THEN net.W[i][j] ELSE Zero])
InputOf(i) == IF net'.s_thalamus[i] THEN net.omega[i] ELSE Zero
VReset(i)  == net'.heap[net.v][i]
VNew(i)    == net'.heap[net'.v][i]

\* C1 (as claimed): in every step, W[i,j] becomes
\* W[i,j] + (W0[i,j] - W[i,j])/tau_r - s[j]*W[i,j]/tau_d, s[j] the spike of the
\* presynaptic (column) neuron j.
C1_DepressionPerColumn ==
    [][StepTaken =>
        \A i \in 1..net.n : \A j \in 1..net.n :
            net'.W[i][j] =
                Sub(Add(net.W[i][j], Mul(Q(1, tau_r), Sub(net.W0[i][j], net.W[i][j]))),
                    Mul(Q(1, tau_d), IF net'.s[j] THEN net.W[i][j] ELSE Zero))]_vars

C3_HistoryIsolation ==
    [][\A k \in 1..Len(net.history["v"]) :
          net'.heap[net.history["v"][k]] = net.heap[net.history["v"][k]]]_vars

\* C7 (as claimed): no engine exists whose potential vector has a length other
\* than the neuron count of its weight matrix.
C7_MismatchRejected == Len(net.heap[net.v]) = Len(net.W)

\* C8: a run_schedule call with lists of different lengths leaves the engine
\* (v, s, W, omega, s_thalamus, r, every history log) exactly as it was and
\* runs no step.
C8_MismatchRunsNothing ==
    [][(pc = "idle" /\ lastCall' = "different lengths") =>
          /\ net' = net
          /\ steps' = steps
          /\ pc' = "idle" /\ queue' = <<>> /\ remaining' = remaining
          /\ outcome' = "AssertionError"]_vars

\* C8 witness: the call failed on an engine that had already run and logged
C8_Witness ==
    /\ outcome = "AssertionError"
    /\ steps >= 1
    /\ \E name \in DOMAIN net.history : net.history[name] # <<>>

\* x lies between 0 and x0: same sign, no larger in magnitude
Within(x, x0) ==
    IF x0 = Zero THEN x = Zero
    ELSE IF Less(Zero, x0) THEN Less(Zero, x) /\ Leq(x, x0)
    ELSE Less(x, Zero) /\ Leq(x0, x)

\* C10: every weight stays between 0 and its baseline (zero entries stay zero,
\* no sign change), every omega stays in (0, omega0], and W0 and omega0 are
\* never modified.
C10_WeightsWithinBaseline ==
    /\ [](/\ \A i \in 1..net.n : \A j \in 1..net.n : Within(net.W[i][j], net.W0[i][j])
          /\ \A i \in 1..net.n :
                Less(Zero, net.omega[i]) /\ Leq(net.omega[i], net.omega0[i]))
    /\ [][net'.W0 = net.W0 /\ net'.omega0 = net.omega0]_vars

\* C10 witness: after two steps some weight and some omega are depressed
C10_Witness ==
    /\ steps >= 2
    /\ \E i \in 1..net.n : \E j \in 1..net.n : net.W[i][j] # net.W0[i][j]
    /\ \E i \in 1..net.n : net.omega[i] # net.omega0[i]

===========================================================================
